---- MODULE Spec2Model ----
(***************************************************************************)
(* box_raw_ptr: ConstRawPtr<T> / MutRawPtr<T> (src/src/lib.rs) over the    *)
(* C allocator bridge C_GLOBAL_ALLOCATOR (src/src/allocator.rs).           *)
(*                                                                         *)
(* A handle is the triple (ptr, memory_length, offset) of the source,      *)
(* tagged with its variant (kind) and its element type (ty).  The heap is  *)
(* the set of blocks handed out by the allocator bridge, the typed cells   *)
(* they hold, and the bag of addresses passed to c_global_deallocator.     *)
(* Machine integers keep a (scaled-down) width: usize is WordBits wide.    *)
(***************************************************************************)
EXTENDS Integers, Sequences, FiniteSets, Bags, TLC

\* ------------------------------------------------------------- bounds
\* Handle slots (values of ConstRawPtr / MutRawPtr ever constructed in a run).
MaxHandles == 2
\* Blocks the allocator hands out in a run.
MaxBlocks == 1
\* Largest memory_length a caller passes.
MaxLen == 2
\* Element values are 1..MaxVal.
MaxVal == 2
\* Ordinary change_offset counts are -MaxDelta..MaxDelta.
MaxDelta == 2
\* Width of usize / isize in bits (scaled down from target_pointer_width).
WordBits == 8
\* Elements of the block in the crate's usage example ("Assuming 5 Blocks of i32").
LoopLen == 5

\* ------------------------------------------------- machine integers
UsizeMod == 2 ^ WordBits
IsizeMax == 2 ^ (WordBits - 1) - 1
IsizeMin == 0 - 2 ^ (WordBits - 1)
\* `x as isize` for a usize x.
AsIsize(x) == IF x > IsizeMax THEN x - UsizeMod ELSE x
\* isize addition as the wrapping (release) build computes it.
WrapIsize(x) == AsIsize(x % UsizeMod)
\* whether isize addition a + b overflows (the debug build panics there).
IsizeOverflows(x) == x > IsizeMax \/ x < IsizeMin

\* ------------------------------------------------------ element types
ElemTypes == {"i32", "f64"}
size_of(t) == IF t = "i32" THEN 4 ELSE 8
align_of(t) == IF t = "i32" THEN 4 ELSE 8
Values == 1..MaxVal

\* ------------------------------------------------------------- heap
\* Block b (1..MaxBlocks) lies at Base(b); blocks are a stride apart, wide enough
\* for HeapLen f64 elements and for the pointer to move one element below.
HeapLen == IF LoopLen > MaxLen THEN LoopLen ELSE MaxLen
BlockStride == 8 * (HeapLen + 1)
Base(b) == b * BlockStride
BlockIds == 1..MaxBlocks
\* The 4-byte cells of the address space the blocks can occupy.
CellAddrs == {Base(b) + 4 * i : b \in BlockIds, i \in 0..(2 * HeapLen - 1)}
Poison == [ty |-> "none", val |-> 0]
Cell(t, v) == [ty |-> t, val |-> v]
NoBlock == [st |-> "unused", size |-> 0]

\* ---------------------------------------------------------- handles
Kinds == {"const", "mut"}
Slots == 1..MaxHandles
\* A slot not yet constructed ("unborn") or already dropped / moved out ("gone").
NoHandle ==
  [st |-> "unborn", kind |-> "mut", ty |-> "i32", ptr |-> 0, memory_length |-> 0,
   offset |-> 0, blk |-> 0, via |-> "none"]
Gone == [NoHandle EXCEPT !.st = "gone"]

\* Results: Option / bool / unit / panic, with the carried value (0 when none).
Ret(tag, val) == [tag |-> tag, val |-> val]
None == Ret("None", 0)
Some(v) == Ret("Some", v)
Unit == Ret("unit", 0)
Panic == Ret("panic", 0)
Bool(b) == Ret(IF b THEN "true" ELSE "false", 0)

VARIABLES
  handles,   \* slot -> handle record (st, kind, ty, ptr, memory_length, offset; ghost blk, via)
  blocks,    \* block id -> [st, size in bytes]
  mem,       \* cell address -> typed element stored there, or Poison
  deallocs,  \* bag of the addresses c_global_deallocator was called with
  panicked,  \* the process has panicked / aborted
  last,      \* the last call: op, variant, T, operand slot, operand before, arguments, result,
             \* addresses it handed to dealloc, slot of the handle it produced
  pc         \* position of a caller that runs the usage-example loop (script "none": no loop)

vars == <<handles, blocks, mem, deallocs, panicked, last, pc>>

\* cell: what the memory at the operand's address held when the call was made.
NoCall ==
  [op |-> "init", kind |-> "mut", ty |-> "i32", h |-> 0, pre |-> NoHandle, args |-> <<>>,
   ret |-> Unit, frees |-> <<>>, out |-> 0, cell |-> Poison, touched |-> {}]

\* The caller's position: the loop it runs, its element type, block length and
\* written value, the iteration i and the statement it is about to execute.
NoLoop == [script |-> "none", ty |-> "i32", n |-> 0, w |-> 0, i |-> 0, step |-> "none"]

Init ==
  /\ pc = NoLoop
  /\ handles = [i \in Slots |-> NoHandle]
  /\ blocks = [b \in BlockIds |-> NoBlock]
  /\ mem = [a \in CellAddrs |-> Poison]
  /\ deallocs = EmptyBag
  /\ panicked = FALSE
  /\ last = NoCall

\* The live block that contains address a (0 when none).
BlockOf(a) ==
  LET bs == {b \in BlockIds : blocks[b].st = "live" /\ a >= Base(b) /\ a < Base(b) + blocks[b].size}
  IN IF bs = {} THEN 0 ELSE Base(CHOOSE b \in bs : TRUE)

\* ------------------------------------------------- allocator bridge
\* The lowest block the backend has not handed out yet (addresses are not reused).
\* No block has been handed out yet.
FreshHeap == \A b \in BlockIds : blocks[b].st = "unused"
HasBlock == \E b \in BlockIds : blocks[b].st = "unused"
NextBlock == CHOOSE b \in BlockIds : blocks[b].st = "unused" /\ \A c \in BlockIds : c < b => blocks[c].st # "unused"
\* c_global_allocator(bytes): the backend returns a block it has not handed out
\* (one exists for a request that fits a block) or null (0).
c_global_allocator(bytes) ==
  IF HasBlock /\ bytes <= 8 * HeapLen THEN {Base(NextBlock), 0} ELSE {0}
\* A bridge that hands the backend's result to its caller unchecked.
alloc_returns_unchecked(ptr) == Some(ptr)
\* C_GLOBAL_ALLOCATOR::alloc(layout), given the backend's result: a null goes to
\* handle_alloc_error (the process aborts), any other address is returned.
alloc_returns(ptr) == IF ptr = 0 THEN Panic ELSE Some(ptr)
BlocksAlloc(base, size) ==
  [b \in BlockIds |-> IF Base(b) = base THEN [st |-> "live", size |-> size] ELSE blocks[b]]
\* C_GLOBAL_ALLOCATOR::dealloc(ptr, _layout): forwards a non-null ptr to c_global_deallocator.
dealloc_calls(ptr) == IF ptr # 0 THEN <<ptr>> ELSE <<>>
\* free(ptr) in the backend: the live block based at ptr is released, its cells
\* become indeterminate; any other ptr is an invalid free.
IsLiveBase(ptr) == \E b \in BlockIds : blocks[b].st = "live" /\ Base(b) = ptr
BlocksFree(frees) ==
  [b \in BlockIds |->
     IF blocks[b].st = "live" /\ \E k \in 1..Len(frees) : frees[k] = Base(b)
     THEN [blocks[b] EXCEPT !.st = "freed"] ELSE blocks[b]]
MemFree(frees) ==
  [a \in CellAddrs |->
     IF \E k \in 1..Len(frees) : IsLiveBase(frees[k]) /\ BlockOf(a) = frees[k]
     THEN Poison ELSE mem[a]]
DeallocsAdd(frees) == IF frees = <<>> THEN deallocs ELSE deallocs (+) SetToBag({frees[1]})
\* An invalid free (double free, interior or foreign pointer) is undefined in the
\* backend: it may abort the process or return.
free_aborts(frees) == IF frees # <<>> /\ ~IsLiveBase(frees[1]) THEN {TRUE, FALSE} ELSE {FALSE}

\* ------------------------------------------------------- raw memory
\* *ptr for an element of type ty: the element stored there, or an indeterminate
\* value when the cell holds none of that type (uninitialised, freed, reinterpreted
\* or foreign memory).
read(ty, ptr) ==
  IF ptr \in CellAddrs /\ BlockOf(ptr) # 0 /\ mem[ptr].ty = ty THEN {mem[ptr].val} ELSE Values
\* std::ptr::write / replace of an element of type ty at ptr inside a live block.
write(ty, ptr, v) ==
  [a \in CellAddrs |->
     IF BlockOf(ptr) = 0 THEN mem[a]
     ELSE IF a = ptr THEN Cell(ty, v)
     ELSE IF a > ptr /\ a < ptr + size_of(ty) THEN Poison
     ELSE IF a < ptr /\ mem[a].ty # "none" /\ a + size_of(mem[a].ty) > ptr THEN Poison
     ELSE mem[a]]

\* The memory cell at address a of a live block (Poison elsewhere).
CellAt(a) == IF a \in CellAddrs /\ BlockOf(a) # 0 THEN mem[a] ELSE Poison
\* The slot the next constructed handle occupies.
HasSlot == \E i \in Slots : handles[i].st = "unborn"
\* No handle has been constructed yet.
NoRoot == \A i \in Slots : handles[i].st = "unborn"
NextSlot == CHOOSE i \in Slots : handles[i].st = "unborn" /\ \A j \in Slots : j < i => handles[j].st # "unborn"
Live(i) == ~panicked /\ handles[i].st = "live"
\* The struct literal Self { ptr, memory_length, offset }; blk (the block the handle
\* was made over) and via (the constructor) are history, read by no operation.
Handle(kind, ty, ptr, memory_length, offset, blk, via) ==
  [st |-> "live", kind |-> kind, ty |-> ty, ptr |-> ptr, memory_length |-> memory_length,
   offset |-> offset, blk |-> blk, via |-> via]

\* ===================================================== ConstRawPtr<T>
\* Each method is a function of the handle (self) and its arguments; it yields the
\* returned value and what the handle (or the produced handle) becomes.

\* ConstRawPtr::new: the two asserts hold and the triple is stored.
Const_new_ok(ty, ptr, memory_length, offset) ==
  ptr % align_of(ty) = 0 /\ offset < memory_length

Const_check_ptr(self) ==
  IF self.ptr = 0 THEN FALSE ELSE self.ptr % align_of(self.ty) = 0

Const_check_bounds(self) == self.offset \in 0..self.memory_length

Const_is_null(self) == self.ptr = 0

\* change_offset: the set of outcomes [ret, self]; offset as isize + count panics
\* on overflow in a build with overflow checks and wraps otherwise.
Const_change_offset(self, count) ==
  IF ~Const_check_ptr(self) THEN {[ret |-> None, self |-> self]}
  ELSE LET sum == AsIsize(self.offset) + count
           new_offset == WrapIsize(sum)
           moved == [self EXCEPT !.offset = new_offset % UsizeMod,
                                 !.ptr = (self.ptr + count * size_of(self.ty)) % UsizeMod]
           done == IF new_offset >= 0 /\ new_offset < AsIsize(self.memory_length)
                   THEN [ret |-> Some(0), self |-> moved]
                   ELSE [ret |-> None, self |-> self]
       IN IF IsizeOverflows(sum) THEN {[ret |-> Panic, self |-> self], done} ELSE {done}

Const_change_memory_length(self, memory_length) ==
  IF memory_length <= 0 \/ self.offset >= memory_length
  THEN [ret |-> None, self |-> self]
  ELSE [ret |-> Some(0), self |-> [self EXCEPT !.memory_length = memory_length]]

Const_set_null(self) ==
  IF Const_check_ptr(self)
  THEN [self EXCEPT !.memory_length = 0, !.offset = 0, !.ptr = 0]
  ELSE self

\* impl Drop for ConstRawPtr: the addresses handed to std::alloc::dealloc.
Const_drop(self) == IF Const_check_ptr(self) THEN dealloc_calls(self.ptr) ELSE <<>>

\* release_ptr: reads *self.ptr, drops self, returns the value.
Const_release_ptr(self) ==
  IF Const_check_ptr(self)
  THEN {[ret |-> Some(v), frees |-> Const_drop(self)] : v \in read(self.ty, self.ptr)}
  ELSE {[ret |-> None, frees |-> Const_drop(self)]}

Const_access(self) ==
  IF Const_check_ptr(self) THEN {Some(v) : v \in read(self.ty, self.ptr)} ELSE {None}

Const_ref_const(self) ==
  IF Const_check_ptr(self) THEN {Some(v) : v \in read(self.ty, self.ptr)} ELSE {None}

\* cast_ptr::<U>: the fields of the produced ConstRawPtr<U>, or None on a null ptr.
Const_cast_ptr(self, U) ==
  IF self.ptr # 0
  THEN [ret |-> Some(0), out |-> [self EXCEPT !.ty = U, !.via = "alias"]]
  ELSE [ret |-> None, out |-> NoHandle]

Const_clone(self) == [self EXCEPT !.via = "alias"]

\* ======================================================= MutRawPtr<T>
\* new with the bound of check_bounds (offset <= memory_length) in its second assert.
Mut_new_ok_inclusive(ty, ptr, memory_length, offset) ==
  ptr % align_of(ty) = 0 /\ offset <= memory_length

Mut_new_ok(ty, ptr, memory_length, offset) ==
  ptr % align_of(ty) = 0 /\ offset < memory_length

Mut_check_ptr(self) ==
  IF self.ptr = 0 THEN FALSE ELSE self.ptr % align_of(self.ty) = 0

Mut_check_bounds(self) == self.offset \in 0..self.memory_length

Mut_is_null(self) == self.ptr = 0

\* change_offset that moves offset but leaves ptr where it was.
Mut_change_offset_stale_ptr(self, count) ==
  IF ~Mut_check_ptr(self) THEN {[ret |-> None, self |-> self]}
  ELSE LET new_offset == WrapIsize(AsIsize(self.offset) + count)
       IN IF new_offset >= 0 /\ new_offset < AsIsize(self.memory_length)
          THEN {[ret |-> Some(0), self |-> [self EXCEPT !.offset = new_offset % UsizeMod]]}
          ELSE {[ret |-> None, self |-> self]}

Mut_change_offset(self, count) ==
  IF ~Mut_check_ptr(self) THEN {[ret |-> None, self |-> self]}
  ELSE LET sum == AsIsize(self.offset) + count
           new_offset == WrapIsize(sum)
           moved == [self EXCEPT !.offset = new_offset % UsizeMod,
                                 !.ptr = (self.ptr + count * size_of(self.ty)) % UsizeMod]
           done == IF new_offset >= 0 /\ new_offset < AsIsize(self.memory_length)
                   THEN [ret |-> Some(0), self |-> moved]
                   ELSE [ret |-> None, self |-> self]
       IN IF IsizeOverflows(sum) THEN {[ret |-> Panic, self |-> self], done} ELSE {done}

Mut_change_memory_length(self, memory_length) ==
  IF memory_length <= 0 \/ self.offset > memory_length
  THEN [ret |-> None, self |-> self]
  ELSE [ret |-> Some(0), self |-> [self EXCEPT !.memory_length = memory_length]]

Mut_set_null(self) ==
  IF Mut_check_ptr(self)
  THEN [self EXCEPT !.memory_length = 0, !.offset = 0, !.ptr = 0]
  ELSE self

\* A drop that hands nothing to dealloc (a handle that only borrows).
Mut_drop_borrowing(self) == <<>>

Mut_drop(self) == IF Mut_check_ptr(self) THEN dealloc_calls(self.ptr) ELSE <<>>

Mut_release_ptr(self) ==
  IF Mut_check_ptr(self)
  THEN {[ret |-> Some(v), frees |-> Mut_drop(self)] : v \in read(self.ty, self.ptr)}
  ELSE {[ret |-> None, frees |-> Mut_drop(self)]}

Mut_access(self) ==
  IF Mut_check_ptr(self) THEN {Some(v) : v \in read(self.ty, self.ptr)} ELSE {None}

Mut_ref_const(self) ==
  IF Mut_check_ptr(self) THEN {Some(v) : v \in read(self.ty, self.ptr)} ELSE {None}

Mut_ref_mut(self) ==
  IF Mut_check_ptr(self) THEN {Some(v) : v \in read(self.ty, self.ptr)} ELSE {None}

\* A write_ptr that fills the whole block with src.
Mut_write_ptr_clobber(self, src) ==
  IF ~Mut_check_ptr(self) THEN [ret |-> None, mem |-> mem]
  ELSE [ret |-> Some(0),
        mem |-> [a \in CellAddrs |->
                   IF BlockOf(a) # 0 /\ BlockOf(a) = BlockOf(self.ptr)
                   THEN Cell(self.ty, src) ELSE mem[a]]]

\* write_ptr: the returned value and the memory after std::ptr::replace.
Mut_write_ptr(self, src) ==
  IF ~Mut_check_ptr(self) THEN [ret |-> None, mem |-> mem]
  ELSE [ret |-> Some(0), mem |-> write(self.ty, self.ptr, src)]

Mut_cast_ptr(self, U) ==
  IF self.ptr # 0
  THEN [ret |-> Some(0), out |-> [self EXCEPT !.ty = U, !.via = "alias"]]
  ELSE [ret |-> None, out |-> NoHandle]

Mut_clone(self) == [self EXCEPT !.via = "alias"]

\* ------------------------------------------ dispatch on the variant
check_ptr(self) == IF self.kind = "const" THEN Const_check_ptr(self) ELSE Mut_check_ptr(self)
check_bounds(self) == IF self.kind = "const" THEN Const_check_bounds(self) ELSE Mut_check_bounds(self)
is_null(self) == IF self.kind = "const" THEN Const_is_null(self) ELSE Mut_is_null(self)
new_ok(kind, ty, ptr, memory_length, offset) ==
  IF kind = "const" THEN Const_new_ok(ty, ptr, memory_length, offset)
  ELSE Mut_new_ok(ty, ptr, memory_length, offset)
drop_frees(self) == IF self.kind = "const" THEN Const_drop(self) ELSE Mut_drop(self)

\* =========================================================== actions
\* The methods whose body holds `*self.ptr` (access, ref_const, ref_mut, write_ptr,
\* release_ptr), and the addresses such a method dereferences: self.ptr, behind
\* `if self.check_ptr()`.
DerefOps == {"access", "ref_const", "ref_mut", "write_ptr", "release_ptr"}
derefs_unguarded(self) == {self.ptr}
derefs(self) == IF check_ptr(self) THEN {self.ptr} ELSE {}

\* The record of a call on no handle (a constructor) and of a call on handle i;
\* touched: the addresses the call read or wrote.
Make(op, kind, ty, args, ret, out) ==
  [op |-> op, kind |-> kind, ty |-> ty, h |-> 0, pre |-> NoHandle, args |-> args,
   ret |-> ret, frees |-> <<>>, out |-> out, cell |-> Poison, touched |-> {}]
Call(op, i, args, ret, frees, out) ==
  [op |-> op, kind |-> handles[i].kind, ty |-> handles[i].ty, h |-> i, pre |-> handles[i],
   args |-> args, ret |-> ret, frees |-> frees, out |-> out, cell |-> CellAt(handles[i].ptr),
   touched |-> IF op \in DerefOps THEN derefs(handles[i]) ELSE {}]

\* What a call leaves behind when it touches no heap state.
Returns(call) ==
  /\ last' = call
  /\ panicked' = (call.ret = Panic)
  /\ UNCHANGED <<blocks, mem, deallocs>>

\* The caller allocates a block of n elements through the global allocator
\* (std::alloc::alloc -> C_GLOBAL_ALLOCATOR::alloc); a null aborts the process.
Call_alloc(ty, n) ==
  /\ ~panicked
  /\ \E p \in c_global_allocator(size_of(ty) * n) :
       /\ blocks' = IF p = 0 THEN blocks ELSE BlocksAlloc(p, size_of(ty) * n)
       /\ panicked' = (alloc_returns(p) = Panic)
       /\ last' = Make("alloc", "mut", ty, <<n, p>>, alloc_returns(p), 0)
  /\ UNCHANGED <<handles, mem, deallocs>>

\* Addresses a caller passes to new for a handle at `offset`: null, an address one
\* byte past a block's base (misaligned for every type), and the element at
\* `offset` of each live block that has one.
NewPtrs(ty, offset) ==
  {0} \cup {Base(b) + 1 : b \in BlockIds}
      \cup {Base(b) + offset * size_of(ty) :
              b \in {c \in BlockIds : blocks[c].st = "live"
                                     /\ (offset + 1) * size_of(ty) <= blocks[c].size}}

Call_new(kind, ty, ptr, memory_length, offset) ==
  /\ ~panicked
  /\ HasSlot
  /\ IF new_ok(kind, ty, ptr, memory_length, offset)
     THEN /\ handles' = [handles EXCEPT ![NextSlot] =
                           Handle(kind, ty, ptr, memory_length, offset, BlockOf(ptr), "new")]
          /\ Returns(Make("new", kind, ty, <<ptr, memory_length, offset>>, Unit, NextSlot))
     ELSE /\ UNCHANGED handles
          /\ Returns(Make("new", kind, ty, <<ptr, memory_length, offset>>, Panic, 0))

Call_nullptr(kind) ==
  /\ ~panicked
  /\ HasSlot
  /\ handles' = [handles EXCEPT ![NextSlot] = Handle(kind, "i32", 0, 0, 0, 0, "nullptr")]
  /\ Returns(Make("nullptr", kind, "i32", <<>>, Unit, NextSlot))

\* c_malloc: the argument check, the layout, the allocation, the copy of data and
\* the call of new.
c_malloc_rejects(data, memory_length, offset) ==
  memory_length = 0 \/ offset >= memory_length \/ Len(data) = 0 \/ Len(data) > memory_length
layout_ok(size, align) == size <= IsizeMax - (align - 1)
\* size_of::<T>() * memory_length in usize: when the product overflows, a build with
\* overflow checks panics (TRUE) and a build without them wraps (FALSE).
mul_overflow_checks(product) == IF product >= UsizeMod THEN {TRUE, FALSE} ELSE {FALSE}
MemCopy(ty, base, data) ==
  [a \in CellAddrs |->
     IF \E idx \in 0..(Len(data) - 1) : a = base + idx * size_of(ty)
     THEN Cell(ty, data[(a - base) \div size_of(ty) + 1])
     ELSE mem[a]]
\* The handle c_malloc builds: new(alloc, memory_length, offset).
c_malloc_handle(kind, ty, alloc, memory_length, offset) ==
  Handle(kind, ty, alloc, memory_length, offset, alloc, "c_malloc")

Call_c_malloc(kind, ty, data, memory_length, offset) ==
  /\ ~panicked
  /\ HasSlot
  /\ LET args == <<memory_length, offset>> \o data
         size == (size_of(ty) * memory_length) % UsizeMod
     IN IF c_malloc_rejects(data, memory_length, offset)
        THEN /\ UNCHANGED handles
             /\ Returns(Make("c_malloc", kind, ty, args, None, 0))
        ELSE \E checked \in mul_overflow_checks(size_of(ty) * memory_length) :
        IF checked \/ ~layout_ok(size, align_of(ty))
        THEN /\ UNCHANGED handles
             /\ Returns(Make("c_malloc", kind, ty, args, Panic, 0))
        ELSE \E alloc \in c_global_allocator(size) :
               IF alloc_returns(alloc) = Panic
               THEN /\ UNCHANGED handles
                    /\ Returns(Make("c_malloc", kind, ty, args, Panic, 0))
               ELSE IF alloc_returns(alloc).val = 0
               THEN /\ blocks' = IF alloc = 0 THEN blocks ELSE BlocksAlloc(alloc, size)
                    /\ last' = Make("c_malloc", kind, ty, args, None, 0)
                    /\ UNCHANGED <<handles, mem, deallocs, panicked>>
               ELSE /\ blocks' = BlocksAlloc(alloc, size)
                    /\ mem' = MemCopy(ty, alloc, data)
                    /\ handles' = [handles EXCEPT ![NextSlot] =
                                     c_malloc_handle(kind, ty, alloc, memory_length, offset)]
                    /\ last' = [Make("c_malloc", kind, ty, args, Some(0), NextSlot)
                                  EXCEPT !.touched = {alloc + idx * size_of(ty) :
                                                        idx \in 0..(Len(data) - 1)}]
                    /\ UNCHANGED <<deallocs, panicked>>

\* A handle ends: the addresses its drop hands to dealloc reach the backend.
Ends(i, op, rets, frees) ==
  /\ handles' = [handles EXCEPT ![i] = Gone]
  /\ blocks' = BlocksFree(frees)
  /\ mem' = MemFree(frees)
  /\ deallocs' = DeallocsAdd(frees)
  /\ \E abort \in free_aborts(frees), ret \in rets :
       /\ panicked' = abort
       /\ last' = Call(op, i, <<>>, IF abort THEN Panic ELSE ret, frees, 0)

\* impl Drop, run when the handle goes out of scope.
Call_drop(i) ==
  /\ Live(i)
  /\ Ends(i, "drop", {Unit}, drop_frees(handles[i]))

Call_manual_drop(i) ==
  /\ Live(i)
  /\ Ends(i, "manual_drop", {Unit}, drop_frees(handles[i]))

Call_release_ptr(i) ==
  /\ Live(i)
  /\ LET self == handles[i]
         outs == IF self.kind = "const" THEN Const_release_ptr(self) ELSE Mut_release_ptr(self)
     IN \E r \in outs : Ends(i, "release_ptr", {r.ret}, r.frees)

Call_change_offset(i, count) ==
  /\ Live(i)
  /\ LET self == handles[i]
         outs == IF self.kind = "const" THEN Const_change_offset(self, count)
                 ELSE Mut_change_offset(self, count)
     IN \E r \in outs :
          /\ handles' = [handles EXCEPT ![i] = r.self]
          /\ Returns(Call("change_offset", i, <<count>>, r.ret, <<>>, 0))

Call_change_memory_length(i, memory_length) ==
  /\ Live(i)
  /\ LET self == handles[i]
         r == IF self.kind = "const" THEN Const_change_memory_length(self, memory_length)
              ELSE Mut_change_memory_length(self, memory_length)
     IN /\ handles' = [handles EXCEPT ![i] = r.self]
        /\ Returns(Call("change_memory_length", i, <<memory_length>>, r.ret, <<>>, 0))

Call_set_null(i) ==
  /\ Live(i)
  /\ LET self == handles[i]
     IN /\ handles' = [handles EXCEPT ![i] =
                         IF self.kind = "const" THEN Const_set_null(self) ELSE Mut_set_null(self)]
        /\ Returns(Call("set_null", i, <<>>, Unit, <<>>, 0))

\* as_mut / as_const: the other variant's new on the same triple (its asserts included).
Call_as_mut(i) ==
  /\ Live(i)
  /\ handles[i].kind = "const"
  /\ HasSlot
  /\ LET self == handles[i]
     IN IF Mut_new_ok(self.ty, self.ptr, self.memory_length, self.offset)
        THEN /\ handles' = [handles EXCEPT ![NextSlot] =
                              Handle("mut", self.ty, self.ptr, self.memory_length, self.offset,
                                     self.blk, "alias")]
             /\ Returns(Call("as_mut", i, <<>>, Unit, <<>>, NextSlot))
        ELSE /\ UNCHANGED handles
             /\ Returns(Call("as_mut", i, <<>>, Panic, <<>>, 0))

Call_as_const(i) ==
  /\ Live(i)
  /\ handles[i].kind = "mut"
  /\ HasSlot
  /\ LET self == handles[i]
     IN IF Const_new_ok(self.ty, self.ptr, self.memory_length, self.offset)
        THEN /\ handles' = [handles EXCEPT ![NextSlot] =
                              Handle("const", self.ty, self.ptr, self.memory_length, self.offset,
                                     self.blk, "alias")]
             /\ Returns(Call("as_const", i, <<>>, Unit, <<>>, NextSlot))
        ELSE /\ UNCHANGED handles
             /\ Returns(Call("as_const", i, <<>>, Panic, <<>>, 0))

Call_cast_ptr(i, U) ==
  /\ Live(i)
  /\ HasSlot
  /\ LET self == handles[i]
         r == IF self.kind = "const" THEN Const_cast_ptr(self, U) ELSE Mut_cast_ptr(self, U)
     IN /\ handles' = IF r.ret = None THEN handles ELSE [handles EXCEPT ![NextSlot] = r.out]
        /\ Returns(Call("cast_ptr", i, <<>>, r.ret, <<>>, IF r.ret = None THEN 0 ELSE NextSlot))

Call_clone(i) ==
  /\ Live(i)
  /\ HasSlot
  /\ LET self == handles[i]
     IN /\ handles' = [handles EXCEPT ![NextSlot] =
                         IF self.kind = "const" THEN Const_clone(self) ELSE Mut_clone(self)]
        /\ Returns(Call("clone", i, <<>>, Unit, <<>>, NextSlot))

Call_access(i) ==
  /\ Live(i)
  /\ LET self == handles[i]
     IN \E r \in (IF self.kind = "const" THEN Const_access(self) ELSE Mut_access(self)) :
          /\ UNCHANGED handles
          /\ Returns(Call("access", i, <<>>, r, <<>>, 0))

Call_write_ptr(i, src) ==
  /\ Live(i)
  /\ handles[i].kind = "mut"
  /\ LET r == Mut_write_ptr(handles[i], src)
     IN /\ mem' = r.mem
        /\ last' = Call("write_ptr", i, <<src>>, r.ret, <<>>, 0)
        /\ UNCHANGED <<handles, blocks, deallocs, panicked>>

Call_check_bounds(i) ==
  /\ Live(i)
  /\ UNCHANGED handles
  /\ Returns(Call("check_bounds", i, <<>>, Bool(check_bounds(handles[i])), <<>>, 0))

Call_check_ptr(i) ==
  /\ Live(i)
  /\ UNCHANGED handles
  /\ Returns(Call("check_ptr", i, <<>>, Bool(check_ptr(handles[i])), <<>>, 0))

Call_is_null(i) ==
  /\ Live(i)
  /\ UNCHANGED handles
  /\ Returns(Call("is_null", i, <<>>, Bool(is_null(handles[i])), <<>>, 0))

Call_ref_const(i) ==
  /\ Live(i)
  /\ LET self == handles[i]
     IN \E r \in (IF self.kind = "const" THEN Const_ref_const(self) ELSE Mut_ref_const(self)) :
          /\ UNCHANGED handles
          /\ Returns(Call("ref_const", i, <<>>, r, <<>>, 0))

Call_ref_mut(i) ==
  /\ Live(i)
  /\ handles[i].kind = "mut"
  /\ \E r \in Mut_ref_mut(handles[i]) :
       /\ UNCHANGED handles
       /\ Returns(Call("ref_mut", i, <<>>, r, <<>>, 0))

\* ------------------------------------------- the usage-example loop
\* let mut safeptr = MutRawPtr::new(c_ptr2(), n, 0);
\* for i in 0..=n-1 { safeptr.change_offset(count).unwrap();
\*                    safeptr.write_ptr(w).unwrap(); safeptr.access().unwrap(); }
\* with n = 5 and count = i in the crate documentation (script "doc"); script
\* "step" is the caller that moves one element per iteration (no change_offset
\* before the first write, count = 1 afterwards).
Scripts == {"doc", "step"}
LoopCount(script, i) == IF script = "doc" THEN i ELSE 1
FirstStep(script) == IF script = "doc" THEN "change_offset" ELSE "write_ptr"
\* Option::unwrap: anything but Some(..) panics.
unwrap_panics(ret) == ret.tag # "Some"

\* c_ptr2(): the foreign function hands over a block of n elements.
Loop_start(script, ty, n, w) ==
  /\ pc = NoLoop
  /\ FreshHeap /\ NoRoot
  /\ Call_alloc(ty, n)
  /\ pc' = IF panicked' THEN pc
           ELSE [script |-> script, ty |-> ty, n |-> n, w |-> w, i |-> 0, step |-> "new"]

Loop_new ==
  /\ pc.step = "new"
  /\ \E b \in BlockIds :
       /\ blocks[b].st = "live"
       /\ Call_new("mut", pc.ty, Base(b), pc.n, 0)
  /\ pc' = [pc EXCEPT !.step = FirstStep(pc.script)]

Loop_change_offset ==
  /\ pc.step = "change_offset"
  /\ \E h \in Slots :
       /\ Live(h)
       /\ LET count == LoopCount(pc.script, pc.i)
          IN \E r \in Mut_change_offset(handles[h], count) :
               /\ handles' = [handles EXCEPT ![h] = r.self]
               /\ last' = Call("change_offset", h, <<count>>, r.ret, <<>>, 0)
               /\ panicked' = unwrap_panics(r.ret)
  /\ pc' = [pc EXCEPT !.step = "write_ptr"]
  /\ UNCHANGED <<blocks, mem, deallocs>>

Loop_write_ptr ==
  /\ pc.step = "write_ptr"
  /\ \E h \in Slots :
       /\ Live(h)
       /\ LET r == Mut_write_ptr(handles[h], pc.w)
          IN /\ mem' = r.mem
             /\ last' = Call("write_ptr", h, <<pc.w>>, r.ret, <<>>, 0)
             /\ panicked' = unwrap_panics(r.ret)
  /\ pc' = [pc EXCEPT !.step = "access"]
  /\ UNCHANGED <<handles, blocks, deallocs>>

Loop_access ==
  /\ pc.step = "access"
  /\ \E h \in Slots :
       /\ Live(h)
       /\ \E r \in Mut_access(handles[h]) :
            /\ last' = Call("access", h, <<>>, r, <<>>, 0)
            /\ panicked' = unwrap_panics(r)
  /\ pc' = IF pc.i + 1 < pc.n
           THEN [pc EXCEPT !.i = pc.i + 1, !.step = "change_offset"]
           ELSE [pc EXCEPT !.step = "done"]
  /\ UNCHANGED <<handles, blocks, mem, deallocs>>

\* End of main: safeptr goes out of scope and is dropped.
Loop_exit ==
  /\ pc.step = "done"
  /\ \E h \in Slots : Call_drop(h)
  /\ pc' = [pc EXCEPT !.step = "exit"]

\* ------------------------------------------------------------ inputs
\* T of the constructors; cast_ptr::<U> ranges over ElemTypes.
RootTypes == {"i32"}
Counts == (0 - MaxDelta)..MaxDelta \cup {IsizeMax, IsizeMin}
Lengths == 0..MaxLen
DataVecs == UNION {[1..n -> Values] : n \in 0..2}
\* memory_length arguments of c_malloc: the small lengths, the smallest length whose
\* byte size overflows usize for i32, and usize::MAX.
\* Element counts a caller allocates: none, the small lengths, and the largest
\* array whose byte size is a valid Layout (more than any block holds).
AllocLens == 0..MaxLen \cup {IsizeMax \div 4}
MallocLengths == Lengths \cup {UsizeMod \div 4, UsizeMod - 1}

\* One handle, every operation on it, the memory it reads and writes.
Next ==
  \/ /\ pc = NoLoop
     /\ UNCHANGED pc
     /\ \/ \E ty \in RootTypes, n \in AllocLens : FreshHeap /\ Call_alloc(ty, n)
        \/ \E kind \in Kinds, ty \in RootTypes, n \in Lengths, o \in Lengths :
             \E ptr \in NewPtrs(ty, o) : NoRoot /\ Call_new(kind, ty, ptr, n, o)
        \/ \E kind \in Kinds : NoRoot /\ Call_nullptr(kind)
        \/ \E kind \in Kinds, ty \in RootTypes, data \in DataVecs, n \in Lengths, o \in Lengths :
             FreshHeap /\ NoRoot /\ Call_c_malloc(kind, ty, data, n, o)
        \/ \E i \in Slots : Call_drop(i)
        \/ \E i \in Slots : Call_manual_drop(i)
        \/ \E i \in Slots : Call_release_ptr(i)
        \/ \E i \in Slots, count \in Counts : Call_change_offset(i, count)
        \/ \E i \in Slots, n \in Lengths : Call_change_memory_length(i, n)
        \/ \E i \in Slots : Call_set_null(i)
        \/ \E i \in Slots : Call_access(i)
        \/ \E i \in Slots, v \in Values : Call_write_ptr(i, v)
        \/ \E i \in Slots : Call_check_bounds(i)
        \/ \E i \in Slots : Call_check_ptr(i)
        \/ \E i \in Slots : Call_is_null(i)
        \/ \E i \in Slots : Call_ref_const(i)
        \/ \E i \in Slots : Call_ref_mut(i)
  \/ \E script \in Scripts, ty \in ElemTypes, n \in 1..LoopLen, w \in Values :
       Loop_start(script, ty, n, w)
  \/ Loop_new
  \/ Loop_change_offset
  \/ Loop_write_ptr
  \/ Loop_access
  \/ Loop_exit

Spec == Init /\ [][Next]_vars

\* A handle and the handles derived from it (as_mut, as_const, cast_ptr, clone).
NextAlias ==
  /\ UNCHANGED pc
  /\ \/ \E ty \in RootTypes, n \in 1..MaxLen : FreshHeap /\ Call_alloc(ty, n)
     \/ \E kind \in Kinds, ty \in RootTypes, n \in Lengths, o \in Lengths :
          \E ptr \in NewPtrs(ty, o) : NoRoot /\ Call_new(kind, ty, ptr, n, o)
     \/ \E kind \in Kinds : NoRoot /\ Call_nullptr(kind)
     \/ \E kind \in Kinds, ty \in RootTypes, n \in Lengths, o \in Lengths :
          FreshHeap /\ NoRoot /\ Call_c_malloc(kind, ty, <<1, 2>>, n, o)
     \/ \E i \in Slots : Call_drop(i)
     \/ \E i \in Slots : Call_release_ptr(i)
     \/ \E i \in Slots, count \in {-1, 1} : Call_change_offset(i, count)
     \/ \E i \in Slots, n \in Lengths : Call_change_memory_length(i, n)
     \/ \E i \in Slots : Call_set_null(i)
     \/ \E i \in Slots : Call_as_mut(i)
     \/ \E i \in Slots : Call_as_const(i)
     \/ \E i \in Slots, U \in ElemTypes : Call_cast_ptr(i, U)
     \/ \E i \in Slots : Call_clone(i)

SpecAlias == Init /\ [][NextAlias]_vars

\* A handle made by c_malloc, over the whole range of lengths, read and cleaned up.
NextMalloc ==
  /\ UNCHANGED pc
  /\ \/ \E kind \in Kinds, ty \in ElemTypes, data \in DataVecs, n \in MallocLengths, o \in Lengths :
          FreshHeap /\ NoRoot /\ Call_c_malloc(kind, ty, data, n, o)
     \/ \E i \in Slots : Call_access(i)
     \/ \E i \in Slots : Call_check_bounds(i)
     \/ \E i \in Slots : Call_release_ptr(i)
     \/ \E i \in Slots : Call_drop(i)

SpecMalloc == Init /\ [][NextMalloc]_vars

\* A handle and its reinterpretations (cast_ptr), and the memory they read and write.
NextCast ==
  /\ UNCHANGED pc
  /\ \/ \E ty \in RootTypes, n \in 1..MaxLen : FreshHeap /\ Call_alloc(ty, n)
     \/ \E kind \in Kinds, ty \in RootTypes, n \in Lengths, o \in Lengths :
          \E ptr \in NewPtrs(ty, o) : NoRoot /\ Call_new(kind, ty, ptr, n, o)
     \/ \E kind \in Kinds : NoRoot /\ Call_nullptr(kind)
     \/ \E kind \in Kinds, ty \in RootTypes, n \in Lengths, o \in Lengths :
          FreshHeap /\ NoRoot /\ Call_c_malloc(kind, ty, <<1, 2>>, n, o)
     \/ \E i \in Slots, U \in ElemTypes : Call_cast_ptr(i, U)
     \/ \E i \in Slots : Call_access(i)
     \/ \E i \in Slots : Call_ref_const(i)
     \/ \E i \in Slots : Call_ref_mut(i)
     \/ \E i \in Slots, v \in Values : Call_write_ptr(i, v)
     \/ \E i \in Slots : Call_release_ptr(i)
     \/ \E i \in Slots : Call_check_ptr(i)

SpecCast == Init /\ [][NextCast]_vars

\* ============================================================ claims
\* The handle a call produced, and the operand of a call as it is now.
Out == handles[last.out]
Now == handles[last.h]
Triple(h) == <<h.ptr, h.memory_length, h.offset>>

C1_FreedAtMostOnce ==
  \A b \in BlockIds : CopiesIn(Base(b), deallocs) <= 1

C3_OffsetBelowLength ==
  \A i \in Slots :
    (handles[i].st = "live" /\ handles[i].ptr # 0) =>
      handles[i].offset < handles[i].memory_length

\* C4: a non-null handle constructed by c_malloc (with any accepted initial offset),
\* after any sequence of change_offset calls, has address = block base + offset *
\* sizeof(T); right after c_malloc(data, length, k) with k < len(data) the element
\* at its address (what access() returns) is data[k].
C4_AddressTracksOffset ==
  /\ \A i \in Slots :
       (handles[i].st = "live" /\ handles[i].via = "c_malloc" /\ handles[i].ptr # 0) =>
         handles[i].ptr = handles[i].blk + handles[i].offset * size_of(handles[i].ty)
  /\ (last.op = "c_malloc" /\ last.ret = Some(0) /\ last.args[2] < Len(last.args) - 2) =>
       read(Out.ty, Out.ptr) = {last.args[last.args[2] + 3]}

\* C6: change_memory_length(n) succeeds exactly when n > 0 and offset < n; on
\* success only length changes (to n); on failure address, length and offset are
\* unchanged; for both ConstRawPtr and MutRawPtr.
C6_ChangeMemoryLength ==
  last.op = "change_memory_length" =>
    LET n == last.args[1]
    IN /\ (last.ret = Some(0)) <=> (n > 0 /\ last.pre.offset < n)
       /\ last.ret = Some(0) => Triple(Now) = <<last.pre.ptr, n, last.pre.offset>>
       /\ last.ret # Some(0) => Triple(Now) = Triple(last.pre)

\* C8: check_bounds() returns true if and only if 0 <= offset < length, for every
\* handle state (the null sentinel and a handle with offset = length included).
C8_CheckBounds ==
  last.op = "check_bounds" =>
    ((last.ret = Bool(TRUE)) <=>
       (0 <= last.pre.offset /\ last.pre.offset < last.pre.memory_length))

\* C9: after set_null() on any non-null handle the handle is the null sentinel
\* (is_null() true, length 0, offset 0); set_null calls deallocate on nothing, and
\* neither does the later cleanup of a handle that is null.
C9_SetNull ==
  (last.op = "set_null" /\ last.pre.ptr # 0) =>
    /\ is_null(Now)
    /\ Triple(Now) = <<0, 0, 0>>
    /\ last.frees = <<>>
C9_NullDropFreesNothing ==
  (last.op \in {"drop", "manual_drop"} /\ is_null(last.pre)) => last.frees = <<>>
C9_SetNullAndCleanup == C9_SetNull /\ C9_NullDropFreesNothing

\* C10: a handle created by new over a freshly allocated block and then dropped
\* (no alias, release or set_null in between) causes exactly one deallocate call
\* for that block; dropping a null handle causes no deallocate call.
C10_DropFreesBlockOnce ==
  last.op \in {"drop", "manual_drop"} =>
    /\ last.pre.ptr = 0 => (last.frees = <<>> /\ deallocs = EmptyBag)
    /\ (last.pre.via = "new" /\ last.pre.blk # 0 /\ last.pre.ptr # 0) =>
         /\ last.frees = <<last.pre.blk>>
         /\ CopiesIn(last.pre.blk, deallocs) = 1
         /\ BagCardinality(deallocs) = 1

\* C11: on a write-view handle over a block of 5 elements starting at offset 0 the
\* documented loop `for i in 0..=4 { change_offset(i); write_ptr(100); access() }`
\* completes all five iterations: no change_offset, write_ptr or access fails (no
\* unwrap panics) and every access returns the written value.
C11_DocLoopCompletes ==
  (pc.script = "doc" /\ pc.n = LoopLen) =>
    /\ ~panicked
    /\ last.op \in {"change_offset", "write_ptr"} => last.ret = Some(0)
    /\ last.op = "access" => last.ret = Some(pc.w)

\* The handle is valid and the element it designates lies inside a live block.
InBlock(self) ==
  /\ check_ptr(self)
  /\ BlockOf(self.ptr) # 0
  /\ BlockOf(self.ptr + size_of(self.ty) - 1) = BlockOf(self.ptr)

\* C12: on a valid write-view handle write_ptr(v) succeeds, a following access()
\* returns v, and every other element of the block keeps its previous value; in
\* the scenario that writes w and moves by change_offset(1) between iterations
\* every access returns w and all positions of the block end up w.
C12_WriteStep ==
  (last'.op = "write_ptr" /\ InBlock(last'.pre)) =>
    LET self == last'.pre
    IN /\ last'.ret = Some(0)
       /\ handles' = handles
       /\ mem'[self.ptr] = Cell(self.ty, last'.args[1])
       /\ \A a \in CellAddrs :
            (a < self.ptr \/ a >= self.ptr + size_of(self.ty)) => mem'[a] = mem[a]
C12_AccessAfterWrite ==
  (/\ last.op = "write_ptr" /\ last.ret = Some(0) /\ InBlock(last.pre)
   /\ last'.op = "access" /\ last'.h = last.h) =>
    last'.ret = Some(last.args[1])
C12_StepLoop ==
  (pc.script = "step" /\ pc.step # "exit") =>
    /\ ~panicked
    /\ last.op \in {"change_offset", "write_ptr"} => last.ret = Some(0)
    /\ last.op = "access" => last.ret = Some(pc.w)
    /\ pc.step = "done" =>
         \A h \in Slots : handles[h].st = "live" =>
           \A k \in 0..(pc.n - 1) :
             mem[handles[h].blk + k * size_of(pc.ty)] = Cell(pc.ty, pc.w)
C12_WriteAccessFrame ==
  [][C12_WriteStep /\ C12_AccessAfterWrite /\ C12_StepLoop']_vars
C12_Witness ==
  /\ pc.script = "step" /\ pc.n = LoopLen /\ pc.step = "done"
  /\ last.op = "access" /\ last.ret = Some(pc.w)
  /\ last.pre.offset = LoopLen - 1

\* C13: cast_ptr::<U>() fails only on a null handle; on a non-null handle it
\* returns a handle with the same address, length and offset, and the returned
\* handle is aligned for U (check_ptr() holds on it).
C13_CastPtr ==
  last.op = "cast_ptr" =>
    /\ (last.ret = None) <=> (last.pre.ptr = 0)
    /\ last.ret # None =>
         /\ last.out # 0
         /\ Triple(Out) = Triple(last.pre)
         /\ Out.ptr % align_of(Out.ty) = 0
         /\ check_ptr(Out)

\* C14: c_malloc(data, length, offset) returns no handle exactly when length = 0,
\* offset >= length, data is empty or data has more than length elements;
\* otherwise (unless the process aborts) it returns a handle with the given length
\* and offset over a freshly allocated block of length elements whose positions
\* 0 .. len(data)-1 hold the elements of data in order.
C14_CMalloc ==
  last.op = "c_malloc" =>
    LET length == last.args[1]
        offset == last.args[2]
        data == SubSeq(last.args, 3, Len(last.args))
    IN /\ (last.ret = None) <=>
            (length = 0 \/ offset >= length \/ Len(data) = 0 \/ Len(data) > length)
       /\ last.ret = Some(0) =>
            /\ last.out # 0 /\ Out.st = "live"
            /\ Out.memory_length = length /\ Out.offset = offset
            /\ IsLiveBase(Out.blk)
            /\ \A b \in BlockIds :
                 Base(b) = Out.blk => blocks[b].size = length * size_of(last.ty)
            /\ \A idx \in 0..(Len(data) - 1) :
                 read(last.ty, Out.blk + idx * size_of(last.ty)) = {data[idx + 1]}

\* C15: the allocator bridge's alloc never returns a null address to its caller:
\* for every requested size (0 and very large sizes included), if the backend
\* returns null the process aborts through the allocation-error handler, and
\* otherwise the backend's address is returned unchanged.
C15_AllocNeverNull ==
  /\ last.op = "alloc" =>
       LET backend == last.args[2]
       IN /\ last.ret # Some(0)
          /\ backend = 0 => (last.ret = Panic /\ panicked)
          /\ backend # 0 => (last.ret = Some(backend) /\ ~panicked /\ IsLiveBase(backend))
  /\ (last.op = "c_malloc" /\ last.ret = Some(0)) => Out.ptr # 0
C15_Witness ==
  /\ last.op = "alloc"
  /\ last.args[1] = 0
  /\ last.ret.tag = "Some" /\ last.ret.val # 0

\* C16: access, ref_const, ref_mut, write_ptr and release_ptr applied to a handle
\* whose address is null or not a multiple of alignof(T) return None without
\* reading or writing any memory; access, ref_const, ref_mut and write_ptr also
\* leave the handle's address, length and offset unchanged.
C16_InvalidHandleStep ==
  (last'.op \in DerefOps
     /\ (last'.pre.ptr = 0 \/ last'.pre.ptr % align_of(last'.pre.ty) # 0)) =>
    /\ last'.ret = None
    /\ last'.touched = {}
    /\ mem' = mem
    /\ last'.op # "release_ptr" => handles' = handles
C16_InvalidHandleReturnsNone == [][C16_InvalidHandleStep]_vars
C16_Witness ==
  /\ last.op = "write_ptr"
  /\ last.pre.ptr # 0 /\ last.pre.ptr % align_of(last.pre.ty) # 0
  /\ last.ret = None

\* C17: for every valid handle and every delta d such that change_offset(d)
\* succeeds, a following change_offset(-d) also succeeds and restores exactly the
\* original offset and the original address (length unchanged throughout).
C17_RoundTripStep ==
  (/\ last.op = "change_offset" /\ last.ret = Some(0) /\ check_ptr(last.pre)
   /\ last'.op = "change_offset" /\ last'.h = last.h
   /\ last'.args[1] = 0 - last.args[1]) =>
    /\ last'.ret = Some(0)
    /\ Triple(handles'[last.h]) = Triple(last.pre)
C17_OffsetRoundTrip == [][C17_RoundTripStep]_vars

\* C18: for a handle obtained from c_malloc(data, length, offset) and then driven
\* only by change_offset, write_ptr, access, ref_const and ref_mut (its length is
\* the block's length and its offset is below it), every address the wrapper
\* reads or writes lies inside the allocated block [base, base + length * sizeof(T)).
C18_AccessInsideBlock ==
  (/\ last.op \in {"access", "ref_const", "ref_mut", "write_ptr"}
   /\ last.pre.via = "c_malloc"
   /\ last.pre.offset < last.pre.memory_length
   /\ \E b \in BlockIds :
        /\ Base(b) = last.pre.blk /\ blocks[b].st = "live"
        /\ blocks[b].size = last.pre.memory_length * size_of(last.ty)) =>
    \A a \in last.touched :
      /\ last.pre.blk <= a
      /\ a + size_of(last.ty) <= last.pre.blk + last.pre.memory_length * size_of(last.ty)

\* C19: when a handle is cleaned up (Drop, manual_drop or the drop inside
\* release_ptr), the address handed to the allocator's deallocate is the base
\* address of the block as allocation returned it, whatever successful
\* change_offset calls preceded the cleanup.
C19_DeallocGetsBase ==
  (/\ last.op \in {"drop", "manual_drop", "release_ptr"}
   /\ last.pre.blk # 0
   /\ last.frees # <<>>) =>
    \A k \in 1..Len(last.frees) : last.frees[k] = last.pre.blk

\* C20: a null handle is terminal and inert: every operation applied to the null
\* sentinel (address null, length 0, offset 0) -- change_offset,
\* change_memory_length, write_ptr, access, cast_ptr, set_null -- fails or is a
\* no-op and leaves the handle equal to the sentinel.
C20_NullIsTerminal ==
  (/\ last.op \in {"change_offset", "change_memory_length", "write_ptr",
                   "access", "cast_ptr", "set_null"}
   /\ Triple(last.pre) = <<0, 0, 0>>) =>
    /\ last.ret.tag # "Some"
    /\ Triple(Now) = <<0, 0, 0>>

\* C21: as_mut() / as_const() applied to any handle reachable through the public
\* operations (the null sentinel and a handle after change_memory_length
\* included) returns a handle of the opposite variant with the same address,
\* length and offset, and does not terminate the process.
C21_AsMutAsConst ==
  last.op \in {"as_mut", "as_const"} =>
    /\ last.ret # Panic
    /\ ~panicked
    /\ last.out # 0
    /\ Out.kind = (IF last.op = "as_mut" THEN "mut" ELSE "const")
    /\ Out.kind # last.pre.kind
    /\ Triple(Out) = Triple(last.pre)

\* The outcomes (returned value, resulting address / length / offset) of the last
\* shared operation when ConstRawPtr, and when MutRawPtr, performs it on the
\* handle state and arguments of that call.
C22_ConstOutcomes ==
  LET self == last.pre
      a == last.args
  IN CASE last.op = "new" ->
            {<<Bool(Const_new_ok(last.ty, a[1], a[2], a[3])), <<a[1], a[2], a[3]>>>>}
       [] last.op = "change_offset" ->
            {<<r.ret, Triple(r.self)>> : r \in Const_change_offset(self, a[1])}
       [] last.op = "change_memory_length" ->
            {<<Const_change_memory_length(self, a[1]).ret,
               Triple(Const_change_memory_length(self, a[1]).self)>>}
       [] last.op = "check_bounds" -> {<<Bool(Const_check_bounds(self)), Triple(self)>>}
       [] last.op = "check_ptr" -> {<<Bool(Const_check_ptr(self)), Triple(self)>>}
       [] last.op = "access" -> {<<r, Triple(self)>> : r \in Const_access(self)}
       [] last.op = "cast_ptr" ->
            {<<Const_cast_ptr(self, U).ret, Triple(Const_cast_ptr(self, U).out)>> :
               U \in ElemTypes}
       [] last.op = "set_null" -> {<<Unit, Triple(Const_set_null(self))>>}
       [] OTHER -> {}
C22_MutOutcomes ==
  LET self == last.pre
      a == last.args
  IN CASE last.op = "new" ->
            {<<Bool(Mut_new_ok(last.ty, a[1], a[2], a[3])), <<a[1], a[2], a[3]>>>>}
       [] last.op = "change_offset" ->
            {<<r.ret, Triple(r.self)>> : r \in Mut_change_offset(self, a[1])}
       [] last.op = "change_memory_length" ->
            {<<Mut_change_memory_length(self, a[1]).ret,
               Triple(Mut_change_memory_length(self, a[1]).self)>>}
       [] last.op = "check_bounds" -> {<<Bool(Mut_check_bounds(self)), Triple(self)>>}
       [] last.op = "check_ptr" -> {<<Bool(Mut_check_ptr(self)), Triple(self)>>}
       [] last.op = "access" -> {<<r, Triple(self)>> : r \in Mut_access(self)}
       [] last.op = "cast_ptr" ->
            {<<Mut_cast_ptr(self, U).ret, Triple(Mut_cast_ptr(self, U).out)>> :
               U \in ElemTypes}
       [] last.op = "set_null" -> {<<Unit, Triple(Mut_set_null(self))>>}
       [] OTHER -> {}

\* C22: ConstRawPtr and MutRawPtr are equivalent on their shared operations: on
\* the same (address, length, offset) -- one both variants build with the same
\* new or nullptr call: offset < length, or the null sentinel -- and the same
\* arguments, new, change_offset, change_memory_length, check_bounds, check_ptr,
\* access, cast_ptr and set_null return the same result and leave the same
\* (address, length, offset).
C22_VariantsEquivalent ==
  (/\ last.op \in {"new", "change_offset", "change_memory_length", "check_bounds",
                   "check_ptr", "access", "cast_ptr", "set_null"}
   /\ \/ last.op = "new"
      \/ last.pre.offset < last.pre.memory_length
      \/ Triple(last.pre) = <<0, 0, 0>>) =>
    C22_ConstOutcomes = C22_MutOutcomes
====
